---- MODULE Spec2Model ----
(***************************************************************************)
(* Lightstream WebRTC client.  The repository holds two implementations   *)
(* of the same session/media design:                                      *)
(*   - the xstate machines (src/src/media.ts: mediaMachine, roomMachine,  *)
(*     roomServices), driven through startRoom (src/src/webrtc.ts);       *)
(*   - the legacy ampersand models (src/src/room.js: Room,                *)
(*     src/src/media.js: Media).                                          *)
(* A behaviour of this module runs one of the two (variable impl); the     *)
(* value "xmedia" runs one Media machine under a joined Session and       *)
(* records what that machine receives.                                    *)
(***************************************************************************)
EXTENDS Integers, Sequences, FiniteSets, TLC

\* ---------------------------------------------------------------- bounds
MaxMedia == 1          \* Media ids the server hands out in one behaviour
                       \* (one more in a behaviour that only sends media)
MaxPeers == 2          \* longest roster the model lets notifications build
MaxSwitches == 2       \* SWITCH events sent to one Media machine
MaxCmds == 1           \* commands awaiting their signaling response
MaxCycles == 2         \* forced reconnect cycles counted in one mismatch episode
MaxConsumers == 2      \* consumers the server offers a legacy Room

MediaIds == 1..(MaxMedia + 1)
Devices == {"d1", "d2"}
Self == "self"
RemotePeers == {"pX", "pY"}
SwitchTracks == {"tA", "tB"}
ServerRosters == {<<>>, <<"pX">>, <<"pX", "pY">>}

VARIABLES
  impl,            \* "xstate", "xmedia", "xsend", "xreq", "xapi", "xwatch",
                   \* "lroom", "lmedia" or "lcons": what this behaviour runs
  \* ---- xstate Session machine (roomMachine) and its context
  xroom,           \* state value of roomMachine
  peers,           \* context.peers (ordered)
  media,           \* context.media (ordered list of Media ids)
  actors,          \* spawned mediaMachine actors and their context, by id
  sock,            \* the 'socket' service / protoo peer
  sendTransport,   \* context.sendTransport
  recvTransport,   \* context.recvTransport
  settings,        \* context.settings: produce / consume
  cmds,            \* commands suspended at an await of commandHandler
  \* ---- observation of the run (not program state)
  wasJoined,       \* the Session was joined when the channel went down
                   \* (state.historyValue of 'connected'); kept until the
                   \* event after the channel reopens
  mlast,           \* last event sent to the Media machine under observation
  mprev,           \* the event sent to it before that
  sw,              \* SWITCH events sent to it while it was running
  lastSw,          \* track of the last of them
  closedSent,      \* MEDIA.CLOSED events it sent to the Session
  replaceCalls,    \* producer.replaceTrack invocations it made
  \* ---- legacy Room (src/src/room.js)
  room_state,      \* Room.state
  intentToJoin,    \* Room.intentToJoin
  hasStateMismatch,
  isReconcilingState,
  rpeers,          \* Room.peers: the ids of the tracked remote peers
  protoo,          \* Room.protoo: "none", "connecting", "open" or "down"
  joining,         \* mediasoupRoom.join is awaited
  thenJoin,        \* open().then(x => x.join()) waits for the socket
  transports,      \* the transports of _onJoin exist, listeners attached
  lm,              \* the legacy Media of a "lmedia" behaviour
  \* ---- observation of the legacy run (not program state)
  epCycles,        \* forced cycles started in the current mismatch episode
  lastHb,          \* verdict of the last heartbeat handled while connected
  rfx,             \* the last Room operation and what it logged / invoked
  seq,             \* progress of: pause(local) in active, resume(remote)
  \* ---- inbound requests and the consumers they carry
  req,             \* the last inbound request delivered by the channel and
                   \* the accept() / reject() calls made for it
  accept,          \* Room.accept: the filter on consumed media
  rmedia,          \* Room.media: the ids of the consumed Media, in order
  cmedia,          \* the Media the legacy Room made for consumers, by id
  consumers,       \* the consumers offered to the legacy Room, by id
  \* ---- the startRoom API (src/src/webrtc.ts) around the Session machine
  id,              \* the id its room was started with
  rooms,           \* the rooms registry: what is registered under each id
  sub,             \* the observer's subscription: "none", "room" (useState),
                   \* "media" (useMedia) or "off" (unregistered)
  watcher,         \* the entry of the watchers map made by watch(options, cb):
                   \* its options and its active Media (0: none)
  \* ---- observation of the API (not program state)
  wcb,             \* what the last step called the watcher's callback with:
                   \* a Media id, 0 for no media, -1 when it did not call it
  op               \* the API call made or the notification handled by the last
                   \* step (name), and how often that step invoked the
                   \* observer's callback (calls)

xvars == <<xroom, peers, media, actors, sock, sendTransport, recvTransport,
           settings, cmds, wasJoined, mlast, mprev, sw, lastSw, closedSent, replaceCalls>>
lvars == <<room_state, intentToJoin, hasStateMismatch, isReconcilingState,
           rpeers, protoo, joining, thenJoin, transports, lm, epCycles,
           lastHb, rfx, seq>>
rvars == <<req, accept, rmedia, cmedia, consumers>>
avars == <<id, rooms, sub>>
wvars == <<watcher, wcb>>
vars == <<impl, xvars, lvars, rvars, avars, wvars, op>>

\* ------------------------------------------------------------- helpers
RECURSIVE SelectSeqBy(_, _)
SelectSeqBy(s, keep) ==
  IF s = <<>> THEN <<>>
  ELSE IF Head(s) \in keep THEN <<Head(s)>> \o SelectSeqBy(Tail(s), keep)
       ELSE SelectSeqBy(Tail(s), keep)

Range(s) == {s[i] : i \in 1..Len(s)}

\* ---- inbound requests: the accept() / reject() calls made for one
\* (acc, rej: how often; code: the code of the rejection); st is "consuming"
\* while the xstate requestHandler awaits recvTransport.consume, ann tells
\* that it sent REMOTE_MEDIA_ADDED back, stale that its service was stopped
NoReq ==
  [name |-> "none", acc |-> 0, rej |-> 0, code |-> 0, st |-> "none",
   ann |-> FALSE, stale |-> FALSE]
Accepted(name) ==
  [NoReq EXCEPT !.name = name, !.acc = 1, !.st = "done"]
Rejected(name, code) ==
  [NoReq EXCEPT !.name = name, !.rej = 1, !.code = code, !.st = "done"]

\* ---- the startRoom API: the ids rooms are started with, and room.id as
\* startRoom's own code reads it: `room` there is the interpreter of
\* roomMachine, whose id is the id of the machine
RoomIds == {"r1", "Room"}
serviceId == "Room"

\* a step that is no API call and invokes no callback
NoOp == [name |-> "none", calls |-> 0]
\* the interpreter of the Session took an event: the listener subscribed by
\* useObservable invokes the callback with the new state
update == [NoOp EXCEPT !.calls = IF sub = "room" THEN 1 ELSE 0]

\* =================================================== xstate Media machine
\* The context of one mediaMachine actor, its state value s, and fx: what its
\* last transition executed ("close", "MEDIA.CLOSED", "replaceTrack").  live
\* holds the tracks the machine was handed and nothing has stopped: the Track
\* service, invoked by 'active' on context.track, stops that track when
\* 'active' is left.
NoActor ==
  [s |-> "none", dir |-> "none", peerId |-> "none", dev |-> "none",
   track |-> "none",
   pend |-> "none", closed |-> FALSE, paused |-> FALSE, fx |-> {},
   live |-> {}]

XLive(a) == a.s \in {"healthy", "unhealthy"}
XActive(a) == a.s \in {"healthy", "unhealthy", "paused"}

\* guards.isPaused
isPaused(a) == a.paused

\* entering 'active': the transient '_' state picks paused or live(healthy)
EnterActive(a) ==
  [a EXCEPT !.s = IF isPaused(a) THEN "paused" ELSE "healthy",
            !.live = @ \cup {a.track}]

\* entering 'stopped': action 'close' and sendParent(MEDIA.CLOSED)
EnterStopped(a) ==
  [a EXCEPT !.s = "stopped", !.closed = TRUE, !.pend = "none",
            !.fx = {"close", "MEDIA.CLOSED"},
            !.live = IF XActive(a) THEN @ \ {a.track} ELSE @]

\* entering 'switching': services.switch calls producer.replaceTrack
EnterSwitching_keep(a, t) ==
  [a EXCEPT !.s = "switching", !.pend = a.track, !.fx = {"replaceTrack"},
            !.live = (@ \cup {t}) \ {a.track}]
EnterSwitching(a, t) ==
  [a EXCEPT !.s = "switching", !.pend = t, !.fx = {"replaceTrack"},
            !.live = (@ \cup {t}) \ {a.track}]

\* one event taken by a Media machine; t is the track of a SWITCH
MediaTransition_reclose(a, ev, t) ==
  LET q == [a EXCEPT !.fx = {}] IN
  CASE a.s = "none" -> q
    [] ev \in {"CLOSED", "TRACK.ENDED"} /\ (XActive(a) \/ a.s = "stopped") ->
         EnterStopped(q)
    [] ev = "SWITCH" /\ XActive(a) -> EnterSwitching(q, t)
    [] ev = "PAUSED" /\ XLive(a) -> [q EXCEPT !.s = "paused"]
    [] ev = "RESUMED" /\ a.s = "paused" -> [q EXCEPT !.s = "healthy"]
    [] ev = "done.invoke.switch" /\ a.s = "switching" ->
         EnterActive([q EXCEPT !.track = a.pend, !.pend = "none"])
    [] ev = "error.invoke.switch" /\ a.s = "switching" -> EnterStopped(q)
    [] OTHER -> q
MediaTransition(a, ev, t) ==
  LET q == [a EXCEPT !.fx = {}] IN
  CASE a.s \in {"none", "stopped"} -> q
    [] ev \in {"CLOSED", "TRACK.ENDED"} /\ XActive(a) -> EnterStopped(q)
    [] ev = "SWITCH" /\ XActive(a) -> EnterSwitching(q, t)
    [] ev = "PAUSED" /\ XLive(a) -> [q EXCEPT !.s = "paused"]
    [] ev = "RESUMED" /\ a.s = "paused" -> [q EXCEPT !.s = "healthy"]
    [] ev = "TRACK.METADATA_FAILURE" /\ a.s = "healthy" ->
         [q EXCEPT !.s = "unhealthy"]
    [] ev = "TRACK.METADATA_RESOLVED" /\ a.s = "unhealthy" ->
         [q EXCEPT !.s = "healthy"]
    [] ev = "done.invoke.switch" /\ a.s = "switching" ->
         EnterActive([q EXCEPT !.track = a.pend, !.pend = "none"])
    [] ev = "error.invoke.switch" /\ a.s = "switching" -> EnterStopped(q)
    [] OTHER -> q

\* ================================================= xstate Session machine
\* the behaviours that run the whole Session machine: "xstate" with the
\* commands of a joined Session, "xreq" with the inbound requests and
\* notifications, "xapi" with the calls of the startRoom API
XSession == {"xstate", "xreq", "xapi", "xwatch"}

\* the RequestHandler service is stopped with 'connected': what a suspended
\* handler sends back afterwards is dropped
StopRequestHandler(r) ==
  IF r.st = "consuming" THEN [r EXCEPT !.stale = TRUE] ELSE r
Connected == {"connected.waiting", "connected.joining", "connected.joined",
              "connected.leaving", "connected.left"}
Active == Connected \cup {"connecting", "reconnecting"}

\* roomMachine 'MEDIA.CLOSED' transition: only the connected state handles it
OnMediaClosed_anywhere(list, st, m) ==
  SelectSeqBy(list, Range(list) \ {m})
OnMediaClosed(list, st, m) ==
  IF st \in Connected THEN SelectSeqBy(list, Range(list) \ {m}) ELSE list

Hit(x, set) == IF x \in set THEN 1 ELSE 0

\* an event sent to actor m (whose record is a), and the MEDIA.CLOSED it may
\* send to its parent
SendToActor(m, a, ev, t) ==
  LET b == MediaTransition(a, ev, t) IN
  /\ actors' = [actors EXCEPT ![m] = b]
  /\ media' = IF "MEDIA.CLOSED" \in b.fx
              THEN OnMediaClosed(media, xroom, m) ELSE media
  /\ IF impl = "xmedia"
     THEN /\ mprev' = mlast
          /\ mlast' = ev
          /\ closedSent' = closedSent + Hit("MEDIA.CLOSED", b.fx)
          /\ replaceCalls' = replaceCalls + Hit("replaceTrack", b.fx)
          /\ sw' = IF ev = "SWITCH" /\ a.s \notin {"none", "stopped"}
                   THEN sw + 1 ELSE sw
          /\ lastSw' = IF ev = "SWITCH" /\ a.s \notin {"none", "stopped"}
                       THEN t ELSE lastSw
     ELSE UNCHANGED <<mlast, mprev, sw, lastSw, closedSent, replaceCalls>>

\* two events sent to actor m one after the other
SendBoth(m, a, ev1, ev2) ==
  LET b1 == MediaTransition(a, ev1, "none")
      b2 == MediaTransition(b1, ev2, "none")
  IN
  /\ actors' = [actors EXCEPT ![m] = b2]
  /\ media' = IF "MEDIA.CLOSED" \in b1.fx \cup b2.fx
              THEN OnMediaClosed(media, xroom, m) ELSE media
  /\ IF impl = "xmedia"
     THEN /\ mprev' = ev1
          /\ mlast' = ev2
          /\ closedSent' = closedSent + Hit("MEDIA.CLOSED", b1.fx)
                           + Hit("MEDIA.CLOSED", b2.fx)
          /\ UNCHANGED <<sw, lastSw, replaceCalls>>
     ELSE UNCHANGED <<mlast, mprev, sw, lastSw, closedSent, replaceCalls>>

\* leaving the joined state stops the CommandHandler service: what its
\* suspended handlers send back afterwards is dropped
StaleCmds(c) == {[x EXCEPT !.stale = TRUE] : x \in c}

\* ---- the watchers of startRoom.  The Media of the model have one kind
\* and one type, so a watcher's options are its deviceId and peerId.
NoWatcher ==
  [st |-> "none", deviceId |-> "any", peerId |-> "any", active |-> 0]
WatchDevices == {"any", "d2"}
WatchPeers == {"any", "pX"}

mediaMatchesWatchOptions(a, options) ==
  /\ options.deviceId = "any" \/ options.deviceId = a.dev
  /\ options.peerId = "any" \/ options.peerId = a.peerId

\* getActiveMediaForWatcher over getMediaList() (list, acts): what it
\* leaves in settings.active (w.active) and what it returns (0: undefined)
getActiveMediaForWatcher(list, acts, w) ==
  LET available(m) == XLive(acts[m])
      stillActive == /\ w.active # 0
                     /\ w.active \in Range(list)
                     /\ available(w.active)
      found == {i \in 1..Len(list) :
                  /\ available(list[i])
                  /\ mediaMatchesWatchOptions(acts[list[i]], w)}
      nowActive == IF found = {} THEN 0
                   ELSE list[CHOOSE i \in found : \A k \in found : i <= k]
  IN IF stillActive THEN [active |-> w.active, ret |-> 0]
     ELSE [active |-> nowActive, ret |-> nowActive]

\* room.onTransition(onMediaChange): after every event the Session takes,
\* each watcher is called back if there is a new valid Media for it
onMediaChange ==
  IF watcher.st # "on" THEN watcher' = watcher /\ wcb' = -1
  ELSE LET r == getActiveMediaForWatcher(media', actors', watcher) IN
       /\ watcher' = [watcher EXCEPT !.active = r.active]
       /\ wcb' = IF r.ret = 0 THEN -1 ELSE r.ret

XInit ==
  /\ xroom = "waiting"
  /\ peers = <<>>
  /\ media = <<>>
  /\ actors = [m \in MediaIds |-> NoActor]
  /\ sock = "none"
  /\ sendTransport = "none"
  /\ recvTransport = "none"
  /\ settings \in [produce : BOOLEAN, consume : BOOLEAN]
  /\ cmds = {}
  /\ wasJoined = FALSE
  /\ mlast = "none"
  /\ mprev = "none"
  /\ sw = 0
  /\ lastSw = "none"
  /\ closedSent = 0
  /\ replaceCalls = 0

\* CONNECT: waiting -> active.connecting, the socket service is invoked
CONNECT ==
  /\ impl \in XSession /\ xroom = "waiting"
  /\ xroom' = "connecting"
  /\ sock' = "opening"
  /\ op' = update
  /\ UNCHANGED <<impl, avars, lvars, rvars, peers, media, actors, sendTransport,
                 recvTransport, settings, cmds, mlast, mprev, sw, lastSw, closedSent, replaceCalls>>
  /\ wasJoined' = FALSE
  /\ onMediaChange

\* the target of SOCKET.CONNECTED: 'connected' from connecting and from
\* reconnecting, entered at its initial substate
OnSocketConnected_history(st) ==
  IF st = "connecting" THEN "connected.waiting"
  ELSE IF st = "reconnecting" THEN "connected.joined" ELSE st
OnSocketConnected(st) ==
  IF st \in {"connecting", "reconnecting"} THEN "connected.waiting" ELSE st

\* protoo 'open' -> SOCKET.CONNECTED
SOCKET_CONNECTED ==
  /\ impl \in XSession /\ sock \in {"opening", "down"}
  /\ sock' = "open"
  /\ xroom' = OnSocketConnected(xroom)
  /\ op' = update
  /\ UNCHANGED <<impl, avars, lvars, rvars, peers, media, actors, sendTransport,
                 recvTransport, settings, cmds, mlast, mprev, sw, lastSw, closedSent, replaceCalls>>
  /\ wasJoined' = (xroom = "reconnecting" /\ wasJoined)
  /\ onMediaChange

\* protoo 'disconnected' -> SOCKET.DISCONNECTED
SOCKET_DISCONNECTED ==
  /\ impl \in XSession /\ sock = "open"
  /\ sock' = "down"
  /\ xroom' = IF xroom \in Connected THEN "reconnecting" ELSE xroom
  /\ cmds' = IF xroom = "connected.joined" THEN StaleCmds(cmds) ELSE cmds
  /\ wasJoined' = (xroom = "connected.joined")
  /\ req' = StopRequestHandler(req)
  /\ op' = update
  /\ UNCHANGED <<impl, avars, lvars, accept, rmedia, cmedia, consumers, peers, media, actors, sendTransport,
                 recvTransport, settings, mlast, mprev, sw, lastSw, closedSent, replaceCalls>>
  /\ onMediaChange

\* roomMachine action reset: what it assigns to peers and to media
reset_keep(list) == list
reset(list) == <<>>

\* leaving 'active': exit action 'reset', the socket service is stopped
ExitActive ==
  /\ xroom' = "waiting"
  /\ peers' = reset(peers)
  /\ media' = reset(media)
  /\ sock' = "none"
  /\ cmds' = IF xroom = "connected.joined" THEN StaleCmds(cmds) ELSE cmds
  /\ req' = StopRequestHandler(req)
  /\ UNCHANGED <<impl, lvars, accept, rmedia, cmedia, consumers, actors, sendTransport, recvTransport,
                 settings, mlast, mprev, sw, lastSw, closedSent, replaceCalls>>
  /\ wasJoined' = FALSE

\* protoo 'close' -> SOCKET.CLOSED
SOCKET_CLOSED ==
  /\ impl \in XSession /\ sock # "none"
  /\ ExitActive
  /\ op' = update
  /\ UNCHANGED avars
  /\ onMediaChange

\* DISCONNECT command of the API
DISCONNECT ==
  /\ impl \in XSession /\ xroom \in Active
  /\ ExitActive
  /\ op' = update
  /\ UNCHANGED avars
  /\ onMediaChange

\* JOIN: connected.waiting | connected.left -> joining, performJoin invoked
JOIN ==
  /\ impl \in XSession /\ xroom \in {"connected.waiting", "connected.left"}
  /\ xroom' = "connected.joining"
  /\ op' = update
  /\ UNCHANGED <<impl, avars, lvars, rvars, peers, media, actors, sock, sendTransport,
                 recvTransport, settings, cmds, mlast, mprev, sw, lastSw, closedSent, replaceCalls>>
  /\ wasJoined' = FALSE
  /\ onMediaChange

\* what performJoin resolves with when the server answers join with roster
performJoin_selfFirst(roster) == <<Self>> \o roster
performJoin(roster) == roster \o <<Self>>

\* done.invoke.performJoin: the result is spread into the context
JoinDone ==
  /\ impl \in XSession /\ xroom = "connected.joining"
  /\ \E roster \in ServerRosters :
       /\ xroom' = "connected.joined"
       /\ IF settings.produce
          THEN /\ peers' = performJoin(roster)
               /\ sendTransport' = "open"
               /\ recvTransport' = IF settings.consume THEN "open"
                                   ELSE "none"
          ELSE UNCHANGED <<peers, sendTransport, recvTransport>>
  /\ op' = update
  /\ UNCHANGED <<impl, avars, lvars, rvars, media, actors, sock, settings, cmds,
                 mlast, mprev, sw, lastSw, closedSent, replaceCalls>>
  /\ wasJoined' = FALSE
  /\ onMediaChange

\* error.invoke.performJoin: a request of the handshake was rejected
JoinError ==
  /\ impl \in XSession /\ xroom = "connected.joining"
  /\ settings.produce
  /\ xroom' = "connected.waiting"
  /\ op' = update
  /\ UNCHANGED <<impl, avars, lvars, rvars, peers, media, actors, sock, sendTransport,
                 recvTransport, settings, cmds, mlast, mprev, sw, lastSw, closedSent, replaceCalls>>
  /\ wasJoined' = FALSE
  /\ onMediaChange

\* LEAVE: joined -> leaving; performLeave closes every producer/consumer of
\* context.media and both transports before it awaits the Leave request
CloseTransport_keep(t) == t
CloseTransport(t) == IF t = "none" THEN "none" ELSE "closed"

LEAVE ==
  /\ impl \in XSession /\ xroom = "connected.joined"
  /\ xroom' = "connected.leaving"
  /\ actors' = [m \in MediaIds |->
                  IF m \in Range(media) THEN [actors[m] EXCEPT !.closed = TRUE]
                  ELSE actors[m]]
  /\ sendTransport' = CloseTransport(sendTransport)
  /\ recvTransport' = CloseTransport(recvTransport)
  /\ cmds' = StaleCmds(cmds)
  /\ op' = update
  /\ UNCHANGED <<impl, avars, lvars, rvars, peers, media, sock, settings, mlast, mprev, sw, lastSw, closedSent, replaceCalls>>
  /\ wasJoined' = FALSE
  /\ onMediaChange

\* done.invoke.performLeave: action 'reset', target left
LeaveDone ==
  /\ impl \in XSession /\ xroom = "connected.leaving"
  /\ xroom' = "connected.left"
  /\ peers' = reset(peers)
  /\ media' = reset(media)
  /\ op' = update
  /\ UNCHANGED <<impl, avars, lvars, rvars, actors, sock, sendTransport, recvTransport,
                 settings, cmds, mlast, mprev, sw, lastSw, closedSent, replaceCalls>>
  /\ wasJoined' = FALSE
  /\ onMediaChange

\* error.invoke.performLeave: the Leave request was rejected
LeaveError_reset ==
  /\ impl \in XSession /\ xroom = "connected.leaving"
  /\ xroom' = "connected.joined"
  /\ peers' = reset(peers)
  /\ media' = reset(media)
  /\ wasJoined' = FALSE
  /\ op' = update
  /\ UNCHANGED <<impl, avars, lvars, rvars, actors, sock, sendTransport,
                 recvTransport, settings, cmds, mlast, mprev, sw, lastSw,
                 closedSent, replaceCalls>>
  /\ onMediaChange
LeaveError ==
  /\ impl \in XSession /\ xroom = "connected.leaving"
  /\ xroom' = "connected.joined"
  /\ op' = update
  /\ UNCHANGED <<impl, avars, lvars, rvars, peers, media, actors, sock, sendTransport,
                 recvTransport, settings, cmds, mlast, mprev, sw, lastSw, closedSent, replaceCalls>>
  /\ wasJoined' = FALSE
  /\ onMediaChange

\* notification newPeer -> PEER_JOINED
PEER_JOINED ==
  /\ impl = "xreq" /\ xroom \in Connected
  /\ Len(peers) < MaxPeers
  /\ \E p \in RemotePeers : peers' = Append(peers, p)
  /\ op' = update
  /\ UNCHANGED <<impl, avars, lvars, rvars, xroom, media, actors, sock, sendTransport,
                 recvTransport, settings, cmds, wasJoined, mlast, mprev, sw, lastSw, closedSent, replaceCalls>>
  /\ onMediaChange

\* notification peerClosed: the peer's consumers are closed, then PEER_LEFT
PEER_LEFT ==
  /\ impl = "xreq" /\ xroom \in Connected
  /\ \E p \in RemotePeers :
       /\ p \in Range(peers)
       /\ actors' = [m \in MediaIds |->
                       IF m \in Range(media) /\ actors[m].peerId = p
                          /\ actors[m].dir = "cons"
                       THEN [actors[m] EXCEPT !.closed = TRUE]
                       ELSE actors[m]]
       /\ peers' = SelectSeqBy(peers, Range(peers) \ {p})
       /\ media' = SelectSeqBy(media,
                               {m \in Range(media) : actors[m].peerId # p})
  /\ op' = update
  /\ UNCHANGED <<impl, avars, lvars, rvars, xroom, sock, sendTransport, recvTransport,
                 settings, cmds, wasJoined, mlast, mprev, sw, lastSw, closedSent, replaceCalls>>
  /\ onMediaChange

\* notification consumerClosed{consumerId}: the handler calls xstate's
\* send('CLOSED', {to: consumerId}) and returns the action object it makes;
\* the handler is a callback service, not an action of a machine, so nothing
\* executes that object and no event is sent
consumerClosed ==
  /\ impl = "xmedia" /\ xroom \in Connected /\ sock = "open"
  /\ \E consumerId \in Range(media) : actors[consumerId].dir = "cons"
  /\ op' = [update EXCEPT !.name = "consumerClosed"]
  /\ UNCHANGED <<impl, xvars, lvars, rvars, avars>>
  /\ onMediaChange

\* ---- inputs.  A "xmedia" behaviour sends its Media machine every event;
\* a "xstate" behaviour, which runs the whole Session, sends the machines of
\* its media list only the events that change the list.
CommandNames ==
  IF impl = "xmedia" THEN {"Pause", "Resume", "Stop"} ELSE {"Stop"}
TrackEvents ==
  IF impl = "xmedia"
  THEN {"TRACK.ENDED", "TRACK.METADATA_FAILURE", "TRACK.METADATA_RESOLVED"}
  ELSE {"TRACK.ENDED"}
NewTracks == IF impl = "xmedia" THEN SwitchTracks ELSE {"tA"}

\* the behaviours that run xstate machines
XRuns == {"xstate", "xmedia", "xsend"}

\* ---- commandHandler (invoked while joined)
NoCmd(name, m) == \A c \in cmds : ~(c.name = name /\ c.m = m)
FreeIds ==
  {m \in MediaIds : actors[m].s = "none" /\ (impl = "xsend" \/ m <= MaxMedia)}
\* payload.deviceId of a SendAudio / SendVideo command
SendDevices == IF impl = "xsend" THEN Devices ELSE {"d1"}

\* SendAudio / SendVideo with a track supplied: suspended at
\* sendTransport.produce
SendMedia ==
  /\ impl \in {"xstate", "xsend", "xwatch"} /\ xroom = "connected.joined"
  /\ sendTransport = "open"
  /\ Cardinality(cmds) < MaxCmds
  /\ Cardinality(FreeIds) > Cardinality({c \in cmds : c.name = "Send"})
  /\ \E d \in SendDevices :
       cmds' = cmds \cup {[name |-> "Send", m |-> 0, dev |-> d,
                           stale |-> FALSE]}
  /\ op' = update
  /\ UNCHANGED <<impl, avars, lvars, rvars, xroom, peers, media, actors, sock,
                 sendTransport, recvTransport, settings, wasJoined, mlast, mprev, sw, lastSw, closedSent, replaceCalls>>
  /\ onMediaChange

\* roomMachine action addMedia: the Media is appended and its actor spawned
addMedia(list, m) == Append(list, m)

\* produce resolved: LOCAL_MEDIA_ADDED is sent back (dropped once the
\* CommandHandler service was stopped)
LOCAL_MEDIA_ADDED ==
  /\ impl \in {"xstate", "xsend", "xwatch"}
  /\ \E c \in cmds :
       /\ c.name = "Send"
       /\ cmds' = cmds \ {c}
       /\ IF c.stale
          THEN UNCHANGED <<media, actors>>
          ELSE LET m == CHOOSE x \in FreeIds : \A y \in FreeIds : x <= y IN
               /\ media' = addMedia(media, m)
               /\ actors' = [actors EXCEPT ![m] =
                               EnterActive([NoActor EXCEPT !.dir = "prod",
                                              !.peerId = Self, !.dev = c.dev,
                                              !.track = "t0"])]
  /\ op' = update
  /\ UNCHANGED <<impl, avars, lvars, rvars, xroom, peers, sock, sendTransport,
                 recvTransport, settings, wasJoined, mlast, mprev, sw, lastSw, closedSent, replaceCalls>>
  /\ onMediaChange

\* PauseMedia / ResumeMedia / StopSendingMedia: the Media is looked up in
\* context.media, then the handler awaits the signaling request
MediaCommand ==
  /\ impl \in XRuns /\ xroom = "connected.joined"
  /\ Cardinality(cmds) < MaxCmds
  /\ \E m \in Range(media), name \in CommandNames :
       /\ NoCmd(name, m)
       /\ name = "Resume" => ~actors[m].closed
       /\ name = "Stop" => actors[m].dir = "prod"
       /\ cmds' = cmds \cup {[name |-> name, m |-> m, dev |-> "none",
                           stale |-> FALSE]}
  /\ op' = update
  /\ UNCHANGED <<impl, avars, lvars, rvars, xroom, peers, media, actors, sock,
                 sendTransport, recvTransport, settings, wasJoined, mlast, mprev, sw, lastSw, closedSent, replaceCalls>>
  /\ onMediaChange

\* the request was answered: pause()/resume()/close() on the producer or
\* consumer, then the event is sent to the Media's actor.  notified: the
\* producer's 'close' listener (services.producer) sent its own CLOSED
\* before the explicit one
CapabilityAfter(a, name) ==
  CASE name = "Pause" -> [a EXCEPT !.paused = IF a.closed THEN a.paused
                                              ELSE TRUE]
    [] name = "Resume" -> [a EXCEPT !.paused = IF a.closed THEN a.paused
                                               ELSE FALSE]
    [] name = "Stop" -> [a EXCEPT !.closed = TRUE]

CommandEvent(name) ==
  CASE name = "Pause" -> "PAUSED"
    [] name = "Resume" -> "RESUMED"
    [] name = "Stop" -> "CLOSED"

MediaCommandDone ==
  /\ impl \in XRuns
  /\ \E c \in cmds, notified \in BOOLEAN :
       /\ c.name \in {"Pause", "Resume", "Stop"}
       /\ notified => /\ c.name = "Stop" /\ ~actors[c.m].closed
                       /\ XActive(actors[c.m]) /\ actors[c.m].dir = "prod"
       /\ cmds' = cmds \ {c}
       /\ IF notified
          THEN SendBoth(c.m, CapabilityAfter(actors[c.m], c.name),
                        "CLOSED", "CLOSED")
          ELSE SendToActor(c.m, CapabilityAfter(actors[c.m], c.name),
                           CommandEvent(c.name), "none")
  /\ op' = update
  /\ UNCHANGED <<impl, avars, lvars, rvars, xroom, peers, sock, sendTransport,
                 recvTransport, settings, wasJoined>>
  /\ onMediaChange

\* commandHandler's reject(reason): COMMAND_FAILED is sent back to the
\* Session, which has no transition for it; sendBack does nothing once the
\* CommandHandler service was stopped (op name "reject": the call was made
\* and no event reached the Session)
reject(stale) ==
  IF stale THEN [NoOp EXCEPT !.name = "reject"]
  ELSE [update EXCEPT !.name = "COMMAND_FAILED"]

\* the request was rejected or timed out: the handler's catch calls reject
COMMAND_FAILED ==
  /\ impl \in XRuns
  /\ \E c \in cmds :
       /\ cmds' = cmds \ {c}
       /\ op' = reject(c.stale)
  /\ UNCHANGED <<impl, avars, lvars, rvars, xroom, peers, media, actors, sock,
                 sendTransport, recvTransport, settings, wasJoined, mlast, mprev, sw, lastSw, closedSent, replaceCalls>>
  /\ onMediaChange

\* a command that names a Media (PauseMedia, ResumeMedia, StopSendingMedia,
\* SwitchAudio / SwitchVideo) with a mediaId context.media does not hold:
\* reject('Media not found') before any request is made
MediaNotFound ==
  /\ impl = "xsend" /\ xroom = "connected.joined"
  /\ \E mediaId \in MediaIds :
       /\ mediaId \notin Range(media)
       /\ op' = reject(FALSE)
  /\ UNCHANGED <<impl, xvars, lvars, rvars, avars>>
  /\ onMediaChange

\* SwitchAudio / SwitchVideo with a track supplied: SWITCH goes to the actor
SwitchMedia ==
  /\ impl \in {"xstate", "xmedia"} /\ xroom = "connected.joined"
  /\ \E m \in Range(media), t \in NewTracks :
       /\ actors[m].dir = "prod"
       /\ impl = "xmedia" => sw < MaxSwitches
       /\ SendToActor(m, actors[m], "SWITCH", t)
  /\ op' = update
  /\ UNCHANGED <<impl, avars, lvars, rvars, xroom, peers, sock, sendTransport,
                 recvTransport, settings, cmds, wasJoined>>
  /\ onMediaChange

\* ---- what the environment sends a running Media machine
\* services.switch settles: producer.replaceTrack resolved or rejected
SwitchSettled ==
  /\ impl \in {"xstate", "xmedia"}
  /\ \E m \in MediaIds, ev \in {"done.invoke.switch", "error.invoke.switch"} :
       /\ actors[m].s = "switching"
       /\ SendToActor(m, actors[m], ev, "none")
  /\ op' = update
  /\ UNCHANGED <<impl, avars, lvars, rvars, xroom, peers, sock, sendTransport,
                 recvTransport, settings, cmds, wasJoined>>
  /\ onMediaChange

\* services.track: the listeners on the bound track, alive while in 'active'
TrackEvent ==
  /\ impl \in XRuns
  /\ \E m \in MediaIds, ev \in TrackEvents :
       /\ XActive(actors[m])
       /\ ev = "TRACK.METADATA_FAILURE" => actors[m].s = "healthy"
       /\ ev = "TRACK.METADATA_RESOLVED" => actors[m].s = "unhealthy"
       /\ SendToActor(m, actors[m], ev, "none")
  /\ op' = update
  /\ UNCHANGED <<impl, avars, lvars, rvars, xroom, peers, sock, sendTransport,
                 recvTransport, settings, cmds, wasJoined>>
  /\ onMediaChange

\* services.producer: the producer's 'close' listener sends CLOSED
ProducerClosed ==
  /\ impl \in XRuns
  /\ \E m \in MediaIds :
       /\ XActive(actors[m]) /\ actors[m].dir = "prod" /\ actors[m].closed
       /\ SendToActor(m, actors[m], "CLOSED", "none")
  /\ op' = update
  /\ UNCHANGED <<impl, avars, lvars, rvars, xroom, peers, sock, sendTransport,
                 recvTransport, settings, cmds, wasJoined>>
  /\ onMediaChange

\* ---- requestHandler (invoked while connected)
RequestNames == {"newConsumer", "unknown"}

\* how the handler answers once recvTransport.consume has settled
consumeAnswer_acceptFirst(name, ok) ==
  [Accepted(name) EXCEPT !.ann = ok]
consumeAnswer(name, ok) ==
  IF ok THEN [Accepted(name) EXCEPT !.ann = TRUE] ELSE Rejected(name, 403)

\* protoo 'request' -> REQUEST, forwarded to the RequestHandler by
\* 'connected'.  The handler's switch has the one case 'newConsumer', which
\* calls recvTransport.consume: that throws at once without an open
\* transport and is awaited otherwise
REQUEST ==
  /\ impl = "xreq" /\ sock = "open" /\ xroom \in Connected
  /\ req.st # "consuming"
  /\ \E name \in RequestNames :
       req' = IF name # "newConsumer"
              THEN [NoReq EXCEPT !.name = name, !.st = "done"]
              ELSE IF recvTransport # "open" THEN consumeAnswer(name, FALSE)
              ELSE [NoReq EXCEPT !.name = name, !.st = "consuming"]
  /\ op' = update
  /\ UNCHANGED <<impl, avars, lvars, accept, rmedia, cmedia, consumers, xvars>>
  /\ onMediaChange

\* recvTransport.consume settled: REMOTE_MEDIA_ADDED is sent back (action
\* addMedia, unless the service was stopped) and the request accepted, or
\* the request is rejected
ConsumeSettled ==
  /\ impl = "xreq" /\ req.st = "consuming"
  /\ \E ok \in BOOLEAN :
       /\ ok => recvTransport = "open" /\ FreeIds # {}
       /\ req' = consumeAnswer(req.name, ok)
       /\ IF ok /\ ~req.stale
          THEN LET m == CHOOSE x \in FreeIds : \A y \in FreeIds : x <= y IN
               /\ media' = addMedia(media, m)
               /\ actors' = [actors EXCEPT ![m] =
                               EnterActive([NoActor EXCEPT !.dir = "cons",
                                              !.peerId = "pX", !.dev = "d1",
                                              !.track = "t0"])]
          ELSE UNCHANGED <<media, actors>>
  /\ op' = update
  /\ UNCHANGED <<impl, avars, lvars, accept, rmedia, cmedia, consumers, xroom, peers,
                 sock, sendTransport, recvTransport, settings, cmds, wasJoined,
                 mlast, mprev, sw, lastSw, closedSent, replaceCalls>>
  /\ onMediaChange

\* ---- the API object returned by startRoom
\* startRoom called with id i: the room registered under i is returned, or
\* a new room is made and registered
startRoom ==
  /\ impl = "xapi"
  /\ \E i \in RoomIds :
       rooms' = IF rooms[i] # "none" THEN rooms
                ELSE [rooms EXCEPT ![i] = "other"]
  /\ op' = [NoOp EXCEPT !.name = "startRoom"]
  /\ UNCHANGED <<impl, xvars, lvars, rvars, id, sub>>
  /\ UNCHANGED wvars

\* deleteRoom(i): the room registered under i, if any, has DISCONNECT sent
\* to its service and its entry deleted
deleteRoom(i) ==
  /\ rooms' = [rooms EXCEPT ![i] = "none"]
  /\ IF rooms[i] = "this" /\ xroom \in Active
     THEN ExitActive
     ELSE UNCHANGED <<impl, xvars, lvars, rvars>>
  /\ op' = [name |-> "Close",
            calls |-> IF rooms[i] = "this" THEN update.calls ELSE 0]

\* room.Close()
Close ==
  /\ impl = "xapi"
  /\ deleteRoom(serviceId)
  /\ UNCHANGED <<id, sub>>
  /\ UNCHANGED wvars

\* useObservable: the listener is subscribed, then the callback is called
\* with the current state.  emits: subscribe itself hands a new listener the
\* current state of a running interpreter (releases of xstate 4 differ)
useObservable(target, emits) ==
  /\ sub' = target
  /\ op' = [name |-> "use", calls |-> IF emits THEN 2 ELSE 1]

\* room.useState(cb)
useState ==
  /\ impl = "xapi" /\ sub = "none"
  /\ \E emits \in BOOLEAN : useObservable("room", emits)
  /\ UNCHANGED <<impl, xvars, lvars, rvars, id, rooms>>
  /\ UNCHANGED wvars

\* room.useMedia(mediaId, cb): without a Media of that id in context.media
\* the callback is not called and the function returned does nothing
useMedia ==
  /\ impl = "xapi" /\ sub = "none"
  /\ \E mediaId \in MediaIds, emits \in BOOLEAN :
       IF mediaId \in Range(media)
       THEN useObservable("media", emits)
       ELSE /\ ~emits
            /\ sub' = sub
            /\ op' = [name |-> "use", calls |-> 0]
  /\ UNCHANGED <<impl, xvars, lvars, rvars, id, rooms>>
  /\ UNCHANGED wvars

\* the function returned by useState / useMedia: subscription.unsubscribe()
unsubscribe ==
  /\ impl = "xapi" /\ sub # "none"
  /\ sub' = "off"
  /\ op' = [NoOp EXCEPT !.name = "unsubscribe"]
  /\ UNCHANGED <<impl, xvars, lvars, rvars, id, rooms>>
  /\ UNCHANGED wvars

\* room.watch(options, cb): the watcher is registered and its callback
\* called with what getActiveMediaForWatcher returns
watch ==
  /\ impl = "xwatch" /\ watcher.st = "none"
  /\ \E d \in WatchDevices, p \in WatchPeers :
       LET w == [NoWatcher EXCEPT !.st = "on", !.deviceId = d,
                                         !.peerId = p]
           r == getActiveMediaForWatcher(media, actors, w)
       IN /\ watcher' = [w EXCEPT !.active = r.active]
          /\ wcb' = r.ret
  /\ op' = [NoOp EXCEPT !.name = "watch"]
  /\ UNCHANGED <<impl, xvars, lvars, rvars, avars>>

\* the function returned by watch: watchers.delete(cb)
unwatch ==
  /\ impl = "xwatch" /\ watcher.st = "on"
  /\ watcher' = [NoWatcher EXCEPT !.st = "off"]
  /\ wcb' = -1
  /\ op' = [NoOp EXCEPT !.name = "unwatch"]
  /\ UNCHANGED <<impl, xvars, lvars, rvars, avars>>

XNext ==
  \/ startRoom
  \/ watch
  \/ unwatch
  \/ Close
  \/ useState
  \/ useMedia
  \/ unsubscribe
  \/ REQUEST
  \/ ConsumeSettled
  \/ CONNECT
  \/ SOCKET_CONNECTED
  \/ SOCKET_DISCONNECTED
  \/ SOCKET_CLOSED
  \/ DISCONNECT
  \/ JOIN
  \/ JoinDone
  \/ JoinError
  \/ LEAVE
  \/ LeaveDone
  \/ LeaveError
  \/ PEER_JOINED
  \/ PEER_LEFT
  \/ consumerClosed
  \/ SendMedia
  \/ LOCAL_MEDIA_ADDED
  \/ MediaCommand
  \/ MediaCommandDone
  \/ COMMAND_FAILED
  \/ MediaNotFound
  \/ SwitchMedia
  \/ SwitchSettled
  \/ TrackEvent
  \/ ProducerClosed

\* a joined Session that has just added one Media (addMedia spawned its
\* machine): a produced one, or a consumed one whose consumer may be paused
XMediaInit ==
  /\ xroom = "connected.joined"
  /\ wasJoined = FALSE
  /\ sock = "open"
  /\ sendTransport = "open"
  /\ recvTransport = "open"
  /\ settings = [produce |-> TRUE, consume |-> TRUE]
  /\ cmds = {}
  /\ media = <<1>>
  /\ \E d \in {"prod", "cons"}, p \in BOOLEAN :
       /\ d = "prod" => ~p
       /\ peers = IF d = "prod" THEN <<Self>> ELSE <<"pX", Self>>
       /\ actors = [m \in MediaIds |->
                      IF m = 1
                      THEN EnterActive([NoActor EXCEPT !.dir = d,
                             !.peerId = IF d = "prod" THEN Self ELSE "pX",
                             !.dev = "d1", !.track = "t0", !.paused = p])
                      ELSE NoActor]
  /\ mlast = "none"
  /\ mprev = "none"
  /\ sw = 0
  /\ lastSw = "none"
  /\ closedSent = 0
  /\ replaceCalls = 0

\* a joined Session that produces and holds no Media yet
XSendInit ==
  /\ xroom = "connected.joined"
  /\ wasJoined = FALSE
  /\ sock = "open"
  /\ sendTransport = "open"
  /\ recvTransport = "none"
  /\ settings = [produce |-> TRUE, consume |-> FALSE]
  /\ cmds = {}
  /\ media = <<>>
  /\ peers = <<Self>>
  /\ actors = [m \in MediaIds |-> NoActor]
  /\ mlast = "none"
  /\ mprev = "none"
  /\ sw = 0
  /\ lastSw = "none"
  /\ closedSent = 0
  /\ replaceCalls = 0

\* ====================================================== legacy Media model
\* One Media of the legacy Room (src/src/media.js).  producer / consumer are
\* the mediasoup objects it holds: "none", "new" (a consumer not yet
\* received), "sending" (a producer whose send is awaited, no listeners
\* yet), "open" (listeners attached) or "closed"; capL / capR are that
\* object's own locallyPaused / remotelyPaused.  init, pc and use are the
\* places where its asynchronous functions are suspended; fx names the last
\* operation on it and what that operation invoked.
NoMedia ==
  [kind |-> "none", state |-> "preparing", track |-> "none",
   dependants |-> {}, producer |-> "none", consumer |-> "none",
   locallyPaused |-> FALSE, remotelyPaused |-> FALSE,
   capL |-> FALSE, capR |-> FALSE, timer |-> FALSE, init |-> FALSE,
   pc |-> "none", use |-> FALSE, fx |-> {}]

CapLive(c) == c \in {"new", "sending", "open"}
Cap(m) == IF m.consumer # "none" THEN m.consumer ELSE m.producer

\* this.state = s, with the 'change:state' listener: the change is logged to
\* the Room when the Media holds a producer or a consumer
SetState(m, s) ==
  [m EXCEPT !.state = s,
            !.fx = IF s # m.state /\ s = "inactive"
                      /\ (m.producer # "none" \/ m.consumer # "none")
                   THEN @ \cup {"MediaStateChanged:inactive"} ELSE @]

\* Media.close
Media_close_hard(m) ==
  IF m.state = "inactive" THEN m
  ELSE LET m1 == SetState([m EXCEPT !.track = "none", !.timer = FALSE],
                          "inactive")
       IN [m1 EXCEPT
             !.producer = IF CapLive(@) THEN "closed" ELSE @,
             !.consumer = IF CapLive(@) THEN "closed" ELSE @,
             !.fx = @ \cup (IF CapLive(m.producer) THEN {"producer.close"}
                            ELSE {})
                      \cup (IF CapLive(m.consumer) THEN {"consumer.close"}
                            ELSE {})]
Media_close(m) ==
  IF m.state = "inactive" THEN m
  ELSE LET relocal == m.consumer = "none" /\ m.dependants # {}
           m1 == SetState([m EXCEPT !.track = "none", !.timer = relocal],
                          IF relocal THEN "local" ELSE "inactive")
       IN [m1 EXCEPT
             !.producer = IF CapLive(@) THEN "closed" ELSE @,
             !.consumer = IF CapLive(@) THEN "closed" ELSE @,
             !.fx = @ \cup (IF CapLive(m.producer) THEN {"producer.close"}
                            ELSE {})
                      \cup (IF CapLive(m.consumer) THEN {"consumer.close"}
                            ELSE {})]

\* the producer's 'pause' / 'resume' listeners
producer_pause(m, originator) ==
  SetState(IF originator = "local" THEN [m EXCEPT !.locallyPaused = TRUE]
           ELSE [m EXCEPT !.remotelyPaused = TRUE], "paused")

producer_resume_checked(m, originator) ==
  LET m1 == IF originator = "local" THEN [m EXCEPT !.locallyPaused = FALSE]
            ELSE [m EXCEPT !.remotelyPaused = FALSE]
  IN SetState(m1, IF m1.locallyPaused \/ m1.remotelyPaused THEN "paused"
                  ELSE "active")
producer_resume(m, originator) ==
  SetState(IF originator = "local" THEN [m EXCEPT !.locallyPaused = FALSE]
           ELSE [m EXCEPT !.remotelyPaused = FALSE], "active")

\* the consumer's 'pause' listener: a remote pause discards the track
consumer_pause(m, originator) ==
  IF originator = "local"
  THEN SetState([m EXCEPT !.locallyPaused = TRUE], "paused")
  ELSE [m EXCEPT !.remotelyPaused = TRUE, !.track = "none"]

\* the consumer's 'resume' listener for originator local
consumer_resume_local(m) ==
  SetState([m EXCEPT !.locallyPaused = FALSE], "active")

\* Media.unpause: producer.resume() / consumer.resume(); the object emits
\* 'resume' with originator local when it was locally paused
unpause(m) ==
  IF CapLive(Cap(m)) /\ m.capL
  THEN LET m1 == [m EXCEPT !.capL = FALSE] IN
       IF Cap(m) # "open" THEN m1
       ELSE IF m.consumer # "none" THEN consumer_resume_local(m1)
            ELSE producer_resume(m1, "local")
  ELSE m

\* Media.pause
pause(m) ==
  IF CapLive(Cap(m)) /\ ~m.capL
  THEN LET m1 == [m EXCEPT !.capL = TRUE] IN
       IF Cap(m) # "open" THEN m1
       ELSE IF m.consumer # "none" THEN consumer_pause(m1, "local")
            ELSE producer_pause(m1, "local")
  ELSE m

\* initializeLocalTrack up to its first await
StartInit(m) ==
  IF m.init \/ m.consumer # "none" \/ m.dependants = {} THEN m
  ELSE [m EXCEPT !.init = TRUE]

\* Media.send from createProducer to the await of producer.send
produce(m) ==
  [m EXCEPT !.producer = "sending", !.capL = FALSE, !.capR = FALSE,
            !.pc = "send", !.fx = @ \cup {"createProducer"}]

\* Media.send after its await of initializeLocalTrack
afterInit(m) ==
  IF m.track = "none" THEN SetState([m EXCEPT !.pc = "none"], "inactive")
  ELSE produce(m)

\* Media.send
send(m) ==
  IF m.track \in {"none", "ended"}
  THEN LET m1 == StartInit(m) IN
       IF m1.init THEN [m1 EXCEPT !.pc = "init"] ELSE afterInit(m1)
  ELSE produce(m)

\* Media.receive up to the await of consumer.receive
receive(m) ==
  IF m.locallyPaused THEN unpause(m)
  ELSE [m EXCEPT !.pc = "receive", !.fx = @ \cup {"consumer.receive"}]

\* the guard of Media.activate
ignoreActivate_noDependants(m, rc) ==
  m.state \in {"activating", "active", "paused"} \/ ~rc
ignoreActivate(m, rc) ==
  m.state \in {"activating", "active", "paused"} \/ ~rc \/ m.dependants = {}

\* Media.activate; rc: room.state === 'connected'
Media_activate(m, rc) ==
  IF m.consumer # "none" /\ m.state = "paused" THEN unpause(m)
  ELSE IF ignoreActivate(m, rc) THEN m
  ELSE IF m.consumer # "none" THEN receive(SetState(m, "activating"))
       ELSE send(SetState(m, "activating"))

\* the 'change:track' listener
ChangeTrack(m, rc) == IF m.track # "none" THEN Media_activate(m, rc) ELSE m

\* the consumer's 'resume' listener
consumer_resume(m, originator, rc) ==
  IF originator = "local" THEN consumer_resume_local(m)
  ELSE LET m1 == [m EXCEPT !.remotelyPaused = FALSE]
           m2 == IF m1.track = "live" THEN m1
                 ELSE ChangeTrack([m1 EXCEPT !.track = "live"], rc)
       IN SetState(m2, "active")

\* initializeLocalTrack after its awaits, then whatever awaited it
\* (send, useTrack); out: no device, no track, or a new track
initDone(m, out, rc) ==
  LET m0 == [m EXCEPT !.init = FALSE]
      m1 == CASE out = "noDevice" -> SetState(m0, "inactive")
              [] out = "noTrack" ->
                   SetState([m0 EXCEPT !.track = IF @ = "none" THEN "none"
                                                 ELSE "ended"], "inactive")
              [] OTHER ->
                   LET a == IF m0.state \in {"activating", "active", "paused"}
                            THEN m0 ELSE SetState(m0, "local")
                       b == ChangeTrack([a EXCEPT !.track = "live"], rc)
                   IN IF b.state \in {"active", "paused"}
                      THEN [b EXCEPT !.fx = @ \cup {"replaceTrack"}] ELSE b
      m2 == IF m.pc = "init" THEN afterInit(m1) ELSE m1
  IN IF m2.use THEN Media_activate([m2 EXCEPT !.use = FALSE], rc) ELSE m2

\* Media.useTrack
useTrack(m, d, rc) ==
  LET m1 == [m EXCEPT !.dependants = @ \cup {d}] IN
  IF m1.track = "none"
  THEN LET m2 == StartInit(m1) IN
       IF m2.init THEN [m2 EXCEPT !.use = TRUE] ELSE Media_activate(m2, rc)
  ELSE Media_activate(m1, rc)

\* Media.stopUsingTrack
stopUsingTrack(m, d) ==
  LET m1 == [m EXCEPT !.dependants = @ \ {d}] IN
  IF m1.dependants # {} THEN m1
  ELSE IF m1.consumer # "none" THEN pause(m1) ELSE Media_close(m1)

\* producer.send resolved: producer.pause() when the Media is locally
\* paused (a producer paused meanwhile stays so), the listeners are attached
sendDone(m) ==
  LET m1 == [m EXCEPT !.pc = "none", !.producer = "open",
                      !.capL = m.capL \/ m.locallyPaused]
  IN SetState(m1, IF m1.locallyPaused \/ m1.remotelyPaused THEN "paused"
                  ELSE "active")

\* consumer.receive resolved: listeners, flags copied from the consumer,
\* then updateTrack(track)
receiveDone(m, rc) ==
  LET m1 == [m EXCEPT !.pc = "none", !.consumer = "open",
                      !.locallyPaused = m.capL, !.remotelyPaused = m.capR]
      m2 == SetState(m1, IF m1.locallyPaused \/ m1.remotelyPaused
                         THEN "paused" ELSE "active")
  IN IF m2.track = "live" THEN m2
     ELSE ChangeTrack([m2 EXCEPT !.track = "live"], rc)

\* ======================================================= legacy Room model
Legacy == {"lroom", "lmedia"}
Dependants == {"d1", "d2"}
HeartbeatLengths == 1..(Cardinality(RemotePeers) + 1)

\* a "lroom" behaviour runs the Room with no Media and every roster; a
\* "lmedia" behaviour runs one Media under a Room whose roster stays empty
JoinRosters == IF impl = "lroom" THEN SUBSET RemotePeers ELSE {{}}

\* the operations on a Media, and on the Room, that the run records
Observed ==
  {"activate", "useTrack", "stopUsingTrack", "close", "track.onended", "timer"}
Op(name) == [lm EXCEPT !.fx = IF name \in Observed THEN {name} ELSE {}]
RFx(x) == IF impl = "lroom" THEN x ELSE {}
roomConnected == room_state = "connected"

\* media.forEach(x => x.close()) / media.forEach(x => x.activate())
CloseAllMedia == IF lm.kind = "none" THEN lm ELSE Media_close(Op("close"))
ActivateAllMedia ==
  IF lm.kind = "none" THEN lm ELSE Media_activate(Op("activate"), TRUE)

\* Room._handleProtooRequest: the accept() / reject() of each case
LegacyMethods ==
  {"event", "mediasoup-notification", "active-speaker", "message", "unknown"}
handleProtooRequest(method) ==
  IF method \in {"event", "heartbeat", "mediasoup-notification",
                 "active-speaker", "message"}
  THEN Accepted(method) ELSE Rejected(method, 404)

LIdle ==
  /\ room_state = "closed"
  /\ intentToJoin = FALSE
  /\ hasStateMismatch = FALSE
  /\ isReconcilingState = FALSE
  /\ rpeers = {}
  /\ protoo = "none"
  /\ joining = FALSE
  /\ thenJoin = FALSE
  /\ transports = FALSE
  /\ epCycles = 0
  /\ lastHb = "none"
  /\ rfx = {}
  /\ lm = NoMedia
  /\ seq = 0

\* Room.open: a new protoo peer is created, the promise waits for 'open'
Room_open ==
  /\ impl = "lroom" /\ room_state = "closed"
  /\ room_state' = "connecting"
  /\ protoo' = "connecting"
  /\ rfx' = RFx({"open"})
  /\ op' = update
  /\ UNCHANGED <<impl, avars, xvars, rvars, intentToJoin, hasStateMismatch,
                 isReconcilingState, rpeers, joining, thenJoin, transports,
                 epCycles, lastHb, lm, seq>>
  /\ UNCHANGED wvars

\* what the protoo 'open' listener does with intentToJoin and a caller
\* waiting on the promise of open() to join: TRUE when join() is invoked
openJoins(intent, waiting) == intent \/ waiting

\* protoo 'open'
Protoo_open ==
  /\ impl \in Legacy /\ protoo \in {"connecting", "down"}
  /\ protoo' = "open"
  /\ LET j == openJoins(intentToJoin, thenJoin) IN
     /\ room_state' = IF j THEN "preparing" ELSE "connecting"
     /\ joining' = j
     /\ intentToJoin' = j
     /\ rfx' = RFx({"protoo.open"}
                   \cup (IF j /\ intentToJoin THEN {"join:intentToJoin"}
                         ELSE IF j THEN {"join:then"} ELSE {}))
  /\ thenJoin' = IF intentToJoin THEN thenJoin ELSE FALSE
  /\ op' = update
  /\ UNCHANGED <<impl, avars, xvars, rvars, hasStateMismatch, isReconcilingState, rpeers,
                 transports, epCycles, lastHb, lm, seq>>
  /\ UNCHANGED wvars

\* Room.join called by the application once the socket is open
Room_join ==
  /\ impl \in Legacy /\ protoo = "open" /\ ~joining
  /\ room_state \in {"connecting", "preparing"}
  /\ room_state' = "preparing"
  /\ intentToJoin' = TRUE
  /\ joining' = TRUE
  /\ rfx' = RFx({"join"})
  /\ op' = update
  /\ UNCHANGED <<impl, avars, xvars, rvars, hasStateMismatch, isReconcilingState, rpeers,
                 protoo, thenJoin, transports, epCycles, lastHb, lm, seq>>
  /\ UNCHANGED wvars

\* mediasoupRoom.join resolved: Room._onJoin
Room_onJoin ==
  /\ impl \in Legacy /\ joining
  /\ \E S \in JoinRosters : rpeers' = S
  /\ joining' = FALSE
  /\ transports' = TRUE
  /\ room_state' = "connected"
  /\ lm' = ActivateAllMedia
  /\ seq' = 0
  /\ rfx' = RFx({"_onJoin"})
  /\ op' = update
  /\ UNCHANGED <<impl, avars, xvars, rvars, intentToJoin, hasStateMismatch,
                 isReconcilingState, protoo, thenJoin, epCycles, lastHb>>
  /\ UNCHANGED wvars

\* mediasoupRoom.join rejected
Room_joinFailed ==
  /\ impl = "lroom" /\ joining
  /\ joining' = FALSE
  /\ rfx' = RFx({"joinFailed"})
  /\ op' = update
  /\ UNCHANGED <<impl, avars, xvars, rvars, room_state, intentToJoin, hasStateMismatch,
                 isReconcilingState, rpeers, protoo, thenJoin, transports,
                 epCycles, lastHb, lm, seq>>
  /\ UNCHANGED wvars

\* Room.leave: mediasoupRoom.leave() closes the peers, whose 'close'
\* listeners empty the roster
LeaveEffects(withIntentToRejoin) ==
  /\ intentToJoin' = withIntentToRejoin
  /\ lm' = CloseAllMedia
  /\ seq' = 0
  /\ rpeers' = {}
  /\ transports' = FALSE
  /\ joining' = FALSE

\* protoo 'disconnected'
Protoo_disconnected ==
  /\ impl \in Legacy /\ protoo = "open"
  /\ protoo' = "down"
  /\ LeaveEffects(room_state = "connected")
  /\ room_state' = "reconnecting"
  /\ rfx' = RFx({"protoo.disconnected"})
  /\ op' = update
  /\ UNCHANGED <<impl, avars, xvars, rvars, hasStateMismatch, isReconcilingState,
                 thenJoin, epCycles, lastHb>>
  /\ UNCHANGED wvars

\* Room.leave called by the application
Room_leave ==
  /\ impl \in Legacy /\ protoo = "open"
  /\ room_state \in {"connected", "preparing"}
  /\ LeaveEffects(FALSE)
  /\ room_state' = "preparing"
  /\ rfx' = RFx({"leave"})
  /\ op' = update
  /\ UNCHANGED <<impl, avars, xvars, rvars, hasStateMismatch, isReconcilingState, protoo,
                 thenJoin, epCycles, lastHb>>
  /\ UNCHANGED wvars

\* Room.close when the state is not closed
CloseEffects ==
  /\ LeaveEffects(FALSE)
  /\ room_state' = "closed"
  /\ protoo' = "none"
  /\ thenJoin' = FALSE

\* Room.close called by the application, or by the protoo 'close' listener
Room_close ==
  /\ impl = "lroom" /\ room_state # "closed"
  /\ CloseEffects
  /\ rfx' = RFx({"close"})
  /\ op' = update
  /\ UNCHANGED <<impl, avars, xvars, rvars, hasStateMismatch, isReconcilingState,
                 epCycles, lastHb>>
  /\ UNCHANGED wvars

\* transport 'connectionstatechange': failed, then connected again
Transport_state ==
  /\ impl = "lroom" /\ transports
  /\ \E s \in {"failed", "connected"} :
       /\ s = "failed" => room_state = "connected"
       /\ s = "connected" => room_state = "reconnecting"
       /\ room_state' = IF s = "failed" THEN "reconnecting" ELSE "connected"
       /\ rfx' = IF s = "failed" THEN {"transport.failed"}
                 ELSE {"transport.connected"}
  /\ op' = update
  /\ UNCHANGED <<impl, avars, xvars, rvars, intentToJoin, hasStateMismatch,
                 isReconcilingState, rpeers, protoo, joining, thenJoin,
                 transports, epCycles, lastHb, lm, seq>>
  /\ UNCHANGED wvars

\* mediasoupRoom 'newpeer' accepted by _handlePeer / peer 'close'
Room_newpeer ==
  /\ impl = "lroom" /\ transports
  /\ Cardinality(rpeers) + 1 < MaxPeers
  /\ \E p \in RemotePeers \ rpeers : rpeers' = rpeers \cup {p}
  /\ rfx' = RFx({"newpeer"})
  /\ op' = update
  /\ UNCHANGED <<impl, avars, xvars, rvars, room_state, intentToJoin, hasStateMismatch,
                 isReconcilingState, protoo, joining, thenJoin, transports,
                 epCycles, lastHb, lm, seq>>
  /\ UNCHANGED wvars

Peer_close ==
  /\ impl = "lroom" /\ transports
  /\ \E p \in rpeers : rpeers' = rpeers \ {p}
  /\ rfx' = RFx({"peer.close"})
  /\ op' = update
  /\ UNCHANGED <<impl, avars, xvars, rvars, room_state, intentToJoin, hasStateMismatch,
                 isReconcilingState, protoo, joining, thenJoin, transports,
                 epCycles, lastHb, lm, seq>>
  /\ UNCHANGED wvars

\* the heartbeat request handled while connected: n is the length of the
\* server's peers, local the length of [myPeer, ...peers.models]
heartbeat(flag, reconciling, n, local) ==
  LET raise == ~flag /\ n # local
      clear == ~raise /\ flag
      flag1 == IF raise THEN TRUE ELSE IF clear THEN FALSE ELSE flag
      rec1 == IF clear THEN FALSE ELSE reconciling
  IN [hasStateMismatch |-> flag1,
      isReconcilingState |-> IF flag1 /\ ~rec1 THEN TRUE ELSE rec1,
      log |-> (IF raise THEN {"StateException"} ELSE {})
              \cup (IF clear THEN {"StateRecovery"} ELSE {}),
      cycle |-> flag1 /\ ~rec1]

Heartbeat ==
  /\ impl = "lroom" /\ protoo = "open"
  /\ epCycles < MaxCycles
  /\ \E n \in HeartbeatLengths :
       IF room_state # "connected"
       THEN /\ rfx' = RFx({"heartbeat"})
            /\ UNCHANGED <<room_state, intentToJoin, hasStateMismatch,
                           isReconcilingState, rpeers, protoo, joining,
                           thenJoin, transports, epCycles, lastHb, lm, seq>>
       ELSE LET local == Cardinality(rpeers) + 1
                h == heartbeat(hasStateMismatch, isReconcilingState, n, local)
            IN /\ hasStateMismatch' = h.hasStateMismatch
               /\ isReconcilingState' = h.isReconcilingState
               /\ lastHb' = IF n # local THEN "mismatch" ELSE "match"
               /\ epCycles' = IF n = local THEN 0
                              ELSE (IF lastHb = "mismatch" THEN epCycles
                                    ELSE 0) + (IF h.cycle THEN 1 ELSE 0)
               /\ rfx' = {"heartbeat", "connected"} \cup h.log
                         \cup (IF h.cycle THEN {"cycle"} ELSE {})
               /\ IF h.cycle
                  THEN /\ LeaveEffects(FALSE)
                       /\ room_state' = "connecting"
                       /\ protoo' = "connecting"
                       /\ thenJoin' = TRUE
                  ELSE UNCHANGED <<room_state, intentToJoin, rpeers, protoo,
                                   joining, thenJoin, transports, lm, seq>>
  /\ req' = handleProtooRequest("heartbeat")
  /\ op' = update
  /\ UNCHANGED <<impl, avars, xvars, accept, rmedia, cmedia, consumers>>
  /\ UNCHANGED wvars

\* ---- consumers of a "lcons" behaviour
ConsumerIds == 1..MaxConsumers
AppKeys == {"deviceId", "peerId", "type"}
ConsumerApps ==
  [deviceId : Devices, peerId : RemotePeers, type : {"webcam", "audio"}]
NoFilter == [deviceId |-> "none", peerId |-> "none", type |-> "none"]
AcceptFilters ==
  {NoFilter, [NoFilter EXCEPT !.peerId = "pX"],
   [NoFilter EXCEPT !.type = "webcam"],
   [deviceId |-> "d1", peerId |-> "pX", type |-> "audio"]}
NoConsumer == [app |-> NoFilter, st |-> "none"]
NoCMedia == [app |-> NoFilter, consumer |-> 0]

\* isAcceptableMedia(values): whereEq(pickBy(Boolean, values))
isAcceptableMedia(values, x) ==
  \A k \in AppKeys : values[k] # "none" => x[k] = values[k]

\* the validation of _handleConsumer against Room.accept
unacceptable_never(filter, app) == FALSE
unacceptable(filter, app) == ~isAcceptableMedia(filter, app)

\* getMatchingMedia(values): the first Media of the list that matches
Matching(values) ==
  {i \in 1..Len(rmedia) : isAcceptableMedia(values, cmedia[rmedia[i]].app)}

\* Room._handleConsumer for consumer c.  A rejected consumer is closed.  An
\* accepted one is bound to the matching Media of the list, which is closed
\* first (its old consumer's 'close' listener removes it from the list), or
\* to a new Media, which is added once activate() has resolved
handleConsumer(c, app, supported, userAudio) ==
  IF unacceptable(accept, app) \/ userAudio \/ ~supported
  THEN /\ consumers' = [consumers EXCEPT ![c] = [app |-> app, st |-> "closed"]]
       /\ UNCHANGED <<rmedia, cmedia>>
  ELSE IF Matching(app) # {}
  THEN LET i == CHOOSE x \in Matching(app) : \A y \in Matching(app) : x <= y
           existing == rmedia[i]
           old == cmedia[existing].consumer
       IN /\ consumers' = [consumers EXCEPT
                             ![old] = [@ EXCEPT !.st = "closed"],
                             ![c] = [app |-> app, st |-> "open"]]
          /\ rmedia' = IF consumers[old].st = "open"
                       THEN SelectSeqBy(rmedia, Range(rmedia) \ {existing})
                       ELSE rmedia
          /\ cmedia' = [cmedia EXCEPT ![existing].consumer = c]
  ELSE /\ consumers' = [consumers EXCEPT ![c] = [app |-> app, st |-> "open"]]
       /\ cmedia' = [cmedia EXCEPT ![c] = [app |-> app, consumer |-> c]]
       /\ rmedia' = Append(rmedia, c)

\* the request 'mediasoup-notification' that carries a new consumer: it is
\* accepted, then mediasoupRoom.receiveNotification hands the consumer over
Room_newconsumer ==
  /\ impl = "lcons" /\ protoo = "open"
  /\ \E c \in ConsumerIds, app \in ConsumerApps, supported \in BOOLEAN,
        userAudio \in BOOLEAN :
       /\ consumers[c].st = "none"
       /\ \A y \in ConsumerIds : y < c => consumers[y].st # "none"
       /\ userAudio => app.type = "audio"
       /\ handleConsumer(c, app, supported, userAudio)
  /\ req' = handleProtooRequest("mediasoup-notification")
  /\ op' = update
  /\ UNCHANGED <<impl, avars, xvars, lvars, accept>>
  /\ UNCHANGED wvars

\* a consumer is closed by the server: the listener _handleConsumer put on
\* it removes its Media from the list
Consumer_close ==
  /\ impl = "lcons"
  /\ \E c \in ConsumerIds :
       /\ consumers[c].st = "open"
       /\ consumers' = [consumers EXCEPT ![c].st = "closed"]
       /\ rmedia' = SelectSeqBy(rmedia,
                       {m \in Range(rmedia) : cmedia[m].consumer # c})
  /\ op' = update
  /\ UNCHANGED <<impl, avars, xvars, lvars, req, accept, cmedia>>
  /\ UNCHANGED wvars

\* any other request
Room_request ==
  /\ impl = "lcons" /\ protoo = "open"
  /\ \E method \in LegacyMethods \ {"mediasoup-notification"} :
       req' = handleProtooRequest(method)
  /\ op' = update
  /\ UNCHANGED <<impl, avars, xvars, lvars, accept, rmedia, cmedia, consumers>>
  /\ UNCHANGED wvars

RIdle ==
  /\ req = NoReq
  /\ accept = NoFilter
  /\ rmedia = <<>>
  /\ cmedia = [c \in ConsumerIds |-> NoCMedia]
  /\ consumers = [c \in ConsumerIds |-> NoConsumer]

\* a Room that has joined, with the accept filter it was constructed with
LConsInit ==
  /\ room_state = "connected"
  /\ intentToJoin = TRUE
  /\ hasStateMismatch = FALSE
  /\ isReconcilingState = FALSE
  /\ rpeers = RemotePeers
  /\ protoo = "open"
  /\ joining = FALSE
  /\ thenJoin = FALSE
  /\ transports = TRUE
  /\ epCycles = 0
  /\ lastHb = "none"
  /\ rfx = {}
  /\ lm = NoMedia
  /\ seq = 0
  /\ req = NoReq
  /\ accept \in AcceptFilters
  /\ rmedia = <<>>
  /\ cmedia = [c \in ConsumerIds |-> NoCMedia]
  /\ consumers = [c \in ConsumerIds |-> NoConsumer]

\* ---- operations on the Media of a "lmedia" behaviour
MediaStep(m) ==
  /\ lm' = m
  /\ seq' = 0
  /\ op' = update
  /\ UNCHANGED <<impl, avars, xvars, rvars, room_state, intentToJoin, hasStateMismatch,
                 isReconcilingState, rpeers, protoo, joining, thenJoin,
                 transports, epCycles, lastHb, rfx>>
  /\ UNCHANGED wvars

\* Media.activate called from outside (Room.addMedia on an existing Media)
Activate ==
  /\ impl = "lmedia"
  /\ MediaStep(Media_activate(Op("activate"), roomConnected))

UseTrack ==
  /\ impl = "lmedia"
  /\ \E d \in Dependants :
       MediaStep(useTrack(Op("useTrack"), d, roomConnected))

\* Media.stopUsingTrack called with any id, registered or not
StopUsingTrack ==
  /\ impl = "lmedia"
  /\ \E d \in Dependants : MediaStep(stopUsingTrack(Op("stopUsingTrack"), d))

\* Media.close called from outside (the device was removed)
CloseMedia ==
  /\ impl = "lmedia"
  /\ MediaStep(Media_close(Op("close")))

\* track.onended: clearTrack(), then close()
TrackEnded ==
  /\ impl = "lmedia" /\ lm.track = "live"
  /\ MediaStep(Media_close([Op("track.onended") EXCEPT !.track = "none"]))

\* the producer's / consumer's 'close' listener
CapabilityClosed ==
  /\ impl = "lmedia" /\ Cap(lm) = "open"
  /\ MediaStep(Media_close(
       IF lm.consumer # "none"
       THEN [Op("consumer.onclose") EXCEPT !.consumer = "closed"]
       ELSE [Op("producer.onclose") EXCEPT !.producer = "closed"]))

\* newLocalTrackTimeout fires
Timer ==
  /\ impl = "lmedia" /\ lm.timer
  /\ MediaStep(StartInit([Op("timer") EXCEPT !.timer = FALSE]))

\* Media.changeDevice to another device id
ChangeDevice ==
  /\ impl = "lmedia" /\ lm.kind = "prod"
  /\ ~lm.init /\ lm.dependants # {}
  /\ MediaStep(StartInit(Op("changeDevice")))

InitSettled ==
  /\ impl = "lmedia" /\ lm.init
  /\ \E out \in {"noDevice", "noTrack", "track"} :
       MediaStep(initDone(Op("initializeLocalTrack"), out, roomConnected))

\* producer.send settles; it rejects once the producer is closed
SendSettled ==
  /\ impl = "lmedia" /\ lm.pc = "send"
  /\ \E ok \in BOOLEAN :
       /\ ok => lm.producer = "sending"
       /\ MediaStep(IF ok THEN sendDone(Op("producer.send"))
                    ELSE Media_close([Op("producer.send") EXCEPT
                                        !.pc = "none"]))

\* consumer.receive settles; it rejects once the consumer is closed
ReceiveSettled ==
  /\ impl = "lmedia" /\ lm.pc = "receive"
  /\ \E ok \in BOOLEAN :
       /\ ok => lm.consumer = "new"
       /\ MediaStep(IF ok THEN receiveDone(Op("consumer.receive"),
                                           roomConnected)
                    ELSE Media_close([Op("consumer.receive") EXCEPT
                                        !.pc = "none"]))

\* ---- pause / resume.  seq follows the events the listeners receive:
\* 1 after a pause with originator local received in state active, 2 when
\* the next event is a resume with originator remote
PauseStep(m, s) ==
  /\ lm' = m
  /\ seq' = s
  /\ op' = update
  /\ UNCHANGED <<impl, avars, xvars, rvars, room_state, intentToJoin, hasStateMismatch,
                 isReconcilingState, rpeers, protoo, joining, thenJoin,
                 transports, epCycles, lastHb, rfx>>
  /\ UNCHANGED wvars

\* Media.pause / Media.unpause called from outside
Pause ==
  /\ impl = "lmedia" /\ CapLive(Cap(lm)) /\ ~lm.capL
  /\ PauseStep(pause(Op("pause")),
               IF Cap(lm) = "open" /\ lm.state = "active" THEN 1 ELSE 0)

Unpause ==
  /\ impl = "lmedia" /\ CapLive(Cap(lm)) /\ lm.capL
  /\ PauseStep(unpause(Op("unpause")), 0)

\* the server pauses / resumes the producer or consumer
RemotePause ==
  /\ impl = "lmedia" /\ CapLive(Cap(lm)) /\ ~lm.capR
  /\ LET m == [Op("remote.pause") EXCEPT !.capR = TRUE] IN
     PauseStep(IF Cap(lm) # "open" THEN m
               ELSE IF lm.consumer # "none" THEN consumer_pause(m, "remote")
                    ELSE producer_pause(m, "remote"), 0)

RemoteResume ==
  /\ impl = "lmedia" /\ CapLive(Cap(lm)) /\ lm.capR
  /\ LET m == [Op("remote.resume") EXCEPT !.capR = FALSE] IN
     PauseStep(IF Cap(lm) # "open" THEN m
               ELSE IF lm.consumer # "none"
                    THEN consumer_resume(m, "remote", roomConnected)
                    ELSE producer_resume(m, "remote"),
               IF Cap(lm) = "open" /\ seq = 1 THEN 2 ELSE 0)

LNext ==
  \/ Room_open
  \/ Protoo_open
  \/ Room_join
  \/ Room_onJoin
  \/ Room_joinFailed
  \/ Protoo_disconnected
  \/ Room_leave
  \/ Room_close
  \/ Transport_state
  \/ Room_newpeer
  \/ Peer_close
  \/ Heartbeat
  \/ Activate
  \/ UseTrack
  \/ StopUsingTrack
  \/ CloseMedia
  \/ TrackEnded
  \/ CapabilityClosed
  \/ Timer
  \/ ChangeDevice
  \/ InitSettled
  \/ SendSettled
  \/ ReceiveSettled
  \/ Pause
  \/ Unpause
  \/ RemotePause
  \/ RemoteResume
  \/ Room_newconsumer
  \/ Consumer_close
  \/ Room_request

\* a Room that has joined, holding one new Media: a local one (no track
\* yet) or a consumed one, whose consumer may be remotely paused
LMediaInit ==
  /\ room_state = "connected"
  /\ intentToJoin = TRUE
  /\ hasStateMismatch = FALSE
  /\ isReconcilingState = FALSE
  /\ rpeers = {}
  /\ protoo = "open"
  /\ joining = FALSE
  /\ thenJoin = FALSE
  /\ transports = TRUE
  /\ epCycles = 0
  /\ lastHb = "none"
  /\ rfx = {}
  /\ seq = 0
  /\ \E k \in {"prod", "cons"}, r \in BOOLEAN :
       /\ k = "prod" => ~r
       /\ lm = [NoMedia EXCEPT !.kind = k,
                  !.consumer = IF k = "cons" THEN "new" ELSE "none",
                  !.capR = r]

\* the xstate variables of a legacy behaviour
XIdle ==
  /\ XInit
  /\ settings = [produce |-> TRUE, consume |-> TRUE]

\* a room started with some id and registered under it, nothing subscribed
AInit ==
  /\ id \in IF impl = "xapi" THEN RoomIds ELSE {"r1"}
  /\ rooms = [i \in RoomIds |-> IF i = id THEN "this" ELSE "none"]
  /\ sub = "none"
  /\ watcher = NoWatcher
  /\ wcb = -1
  /\ op = NoOp

Init ==
  /\ \/ impl = "xstate" /\ XInit /\ LIdle /\ RIdle
     \/ impl = "xmedia" /\ XMediaInit /\ LIdle /\ RIdle
     \/ impl = "xsend" /\ XSendInit /\ LIdle /\ RIdle
     \/ impl = "xreq" /\ XInit /\ LIdle /\ RIdle
     \/ impl = "xapi" /\ (XInit \/ XMediaInit) /\ LIdle /\ RIdle
     \/ impl = "xwatch" /\ (XInit \/ XMediaInit) /\ LIdle /\ RIdle
     \/ impl = "lroom" /\ XIdle /\ LIdle /\ RIdle
     \/ impl = "lmedia" /\ XIdle /\ LMediaInit /\ RIdle
     \/ impl = "lcons" /\ XIdle /\ LConsInit
  /\ AInit

Next == XNext \/ LNext

Spec == Init /\ [][Next]_vars

C2_OncePerEpisode == lastHb = "mismatch" => epCycles = 1

\* ---- C3
\* C3 as stated: StateRecovery is logged, and the flags cleared, only by a
\* heartbeat whose peers length equals the local roster length.
C3_RecoveryOnlyOnMatch == "StateRecovery" \in rfx => lastHb = "match"

C5_ActivateIgnored ==
  [][ (lm.kind # "none" /\ lm.dependants = {}
         /\ lm.state \in {"preparing", "local"}
         /\ lm'.dependants = {} /\ "activate" \in lm'.fx)
        => lm' = [lm EXCEPT !.fx = {"activate"}] ]_vars

C5_Witness ==
  /\ impl = "lmedia" /\ lm.fx = {"activate"} /\ lm.dependants = {}
  /\ lm.state \in {"preparing", "local"} /\ roomConnected
  /\ lm.pc = "none" /\ lm.producer = "none"

\* ---- C6
\* C6: right after a pause with originator local received in active and then
\* a resume with originator remote, a legacy Media is not in paused; right
\* after PAUSED then RESUMED an xstate Media machine is not in paused.
C6_NotLeftPaused ==
  /\ seq = 2 => lm.state # "paused"
  /\ (impl = "xmedia" /\ mprev = "PAUSED" /\ mlast = "RESUMED")
       => actors[1].s # "paused"

C6_Witness ==
  /\ impl = "lmedia" /\ seq = 2 /\ lm.kind = "prod" /\ lm.state = "active"
  /\ lm.locallyPaused

\* ---- C7
\* C7 as stated: after pause(local) then resume(remote) the locallyPaused
\* flag of a legacy Media is still true.
C7_LocalFlagKept == seq = 2 => lm.locallyPaused

\* ---- C8
\* C8 as stated: after two SWITCH events, whenever the second arrived, the
\* machine (once back in active) is bound to the track of the second and
\* replaceTrack was invoked once per SWITCH.
C8_AnyTiming ==
  (impl = "xmedia" /\ sw = 2 /\ XActive(actors[1]))
    => (actors[1].track = lastSw /\ replaceCalls = 2)

\* C8 amended: replaceTrack is invoked at most once per SWITCH; when every
\* SWITCH arrived in active (each after the replacement before it had
\* completed), the machine back in active is bound to the track of the last
\* SWITCH, and while switching it is replacing with that track.
C8_SwitchAfterCompletion ==
  impl = "xmedia" =>
    /\ replaceCalls <= sw
    /\ (sw > 0 /\ replaceCalls = sw /\ XActive(actors[1]))
         => actors[1].track = lastSw
    /\ (replaceCalls = sw /\ actors[1].s = "switching")
         => actors[1].pend = lastSw

C8_Witness ==
  /\ impl = "xmedia" /\ sw = 2 /\ replaceCalls = 2 /\ XActive(actors[1])
  /\ actors[1].track = "tB" /\ lastSw = "tB"

\* ---- C9
\* C9 as stated: when the join resolves, the roster is self followed by the
\* peers the server answered with.
C9_SelfFirst ==
  [][ (xroom = "connected.joining" /\ xroom' = "connected.joined")
        => \E roster \in ServerRosters : peers' = <<Self>> \o roster ]_vars

\* C9 amended: when performJoin resolves the Session is joined; with
\* settings.produce set the roster is the peers the server answered with, in
\* order, followed by self; with it unset no join request is made and the
\* roster is left as it was.
C9_SelfLast ==
  [][ (xroom = "connected.joining" /\ xroom' = "connected.joined")
        => IF settings.produce
           THEN \E roster \in ServerRosters : peers' = roster \o <<Self>>
           ELSE peers' = peers ]_vars

C9_Witness ==
  /\ impl = "xstate" /\ xroom = "connected.joined" /\ peers = <<"pX", Self>>
  /\ sock = "open" /\ sendTransport = "open"

\* ---- C10
\* C10 as stated: stopUsingTrack by the only dependant of a local Media
\* whose producer is live closes the producer, leaves the Media inactive and
\* reports the closure to the Room.
C10_LastDependantCloses ==
  [][ (lm.kind = "prod" /\ Cardinality(lm.dependants) = 1
         /\ lm.producer = "open"
         /\ lm'.dependants = {} /\ "stopUsingTrack" \in lm'.fx)
        => (lm'.producer = "closed" /\ lm'.state = "inactive"
            /\ "MediaStateChanged:inactive" \in lm'.fx) ]_vars

\* ---- C11
\* C11 as stated: a legacy produced Media holds a live local track only
\* while its dependant set is non-empty, also when a track acquisition
\* completes after the last dependant was released
C11_TrackOnlyWhileUsed ==
  (impl = "lmedia" /\ lm.kind = "prod" /\ lm.track = "live")
    => lm.dependants # {}
\* ---- C12
\* C12 as stated: the media list of a Session never holds two locally
\* produced Media with the same (type, deviceId, peerId): a repeated send
\* for the same triple adds no second entry
C12_OnePerTriple ==
  impl \in {"xstate", "xsend"} =>
    \A i, j \in 1..Len(media) :
      (i # j /\ actors[media[i]].dir = "prod" /\ actors[media[j]].dir = "prod")
        => <<actors[media[i]].dev, actors[media[i]].peerId>>
             # <<actors[media[j]].dev, actors[media[j]].peerId>>
\* ---- C13
\* C13: a consumer offered to the legacy Room for a (deviceId, peerId, type)
\* that Room.accept excludes was carried by an accepted request, is closed,
\* and is the consumer of no Media, listed or not
C13_ExcludedConsumerDropped ==
  impl = "lcons" =>
    \A c \in ConsumerIds :
      (consumers[c].st # "none" /\ ~isAcceptableMedia(accept, consumers[c].app))
        => /\ consumers[c].st = "closed"
           /\ req.name = "mediasoup-notification" => (req.acc = 1 /\ req.rej = 0)
           /\ \A m \in ConsumerIds : cmedia[m].consumer # c

\* an excluded consumer was offered after a Media for an accepted one of
\* the same peer was listed, and that Media is still listed
C13_Witness ==
  /\ impl = "lcons" /\ accept = [NoFilter EXCEPT !.type = "webcam"]
  /\ consumers[1].st = "open" /\ consumers[2].st = "closed"
  /\ consumers[2].app.type = "audio"
  /\ consumers[1].app.peerId = consumers[2].app.peerId
  /\ rmedia = <<1>> /\ req = Accepted("mediasoup-notification")
\* ---- C14
\* C14: the xstate requestHandler answers a newConsumer request once it is
\* through with it: it accepts only after consume succeeded and
\* REMOTE_MEDIA_ADDED was sent back (which adds the Media while the
\* handler's service is running), and it rejects, adding no Media, when
\* the consumer could not be created
C14_AcceptAfterConsume ==
  [][ (impl = "xreq" /\ req'.name = "newConsumer" /\ req' # req
         /\ req'.st = "done")
        => /\ req'.acc + req'.rej = 1
           /\ req'.acc = 1 =>
                /\ req.st = "consuming" /\ req'.ann /\ recvTransport = "open"
                /\ ~req.stale => /\ Len(media') = Len(media) + 1
                                  /\ actors'[media'[Len(media')]].dir = "cons"
           /\ req'.rej = 1 => (~req'.ann /\ media' = media) ]_vars

\* a newConsumer request was accepted and its Media is in the list
C14_Witness ==
  /\ impl = "xreq" /\ req.name = "newConsumer" /\ req.acc = 1 /\ req.ann
  /\ xroom = "connected.joined" /\ Len(media) = 1
  /\ actors[media[1]].dir = "cons"

\* ---- C15
\* C15 as stated: every inbound request that was delivered and is not being
\* worked on any more had exactly one of accept / reject called for it
C15_ExactlyOneAnswer ==
  req.st = "done" => req.acc + req.rej = 1

\* ---- C16
\* C16 as stated: a request with an unrecognized name is rejected with a
\* not-found code, by the legacy Room and by the xstate requestHandler
C16_UnknownRejected ==
  (req.st = "done" /\ req.name = "unknown") => (req.rej = 1 /\ req.code = 404)

\* ---- C17
\* C17 as stated: when the channel closes for good (SOCKET.CLOSED) the
\* Session goes to the top-level waiting state with an empty roster, an
\* empty media list and no send or receive transport held
C17_AllDiscarded ==
  [][ (impl \in XSession /\ sock # "none" /\ sock' = "none")
        => /\ xroom' = "waiting" /\ peers' = <<>> /\ media' = <<>>
           /\ sendTransport' = "none" /\ recvTransport' = "none" ]_vars

\* ---- C18
\* C18 as stated: when the Session is torn down (DISCONNECT: the machine
\* leaves 'active' and its socket service releases the channel), every
\* Media of the media list has been closed: its machine is in stopped and
\* its producer / consumer is closed
C18_MediaClosedOnTeardown ==
  [][ (impl \in XSession /\ xroom \in Active /\ xroom' = "waiting")
        => \A m \in Range(media) :
             actors'[m].closed /\ actors'[m].s = "stopped" ]_vars

\* ---- C19
\* C19: LEAVE from joined closes the producer / consumer of every Media of
\* the media list and both transports and awaits the Leave request; when
\* that completes the Session is in connected.left, every Media still in
\* the list had been closed, and the roster and the media list are empty
C19_LeaveClosesAll ==
  [][ /\ (impl \in XSession /\ xroom = "connected.joined"
            /\ xroom' = "connected.leaving")
          => /\ \A m \in Range(media) : actors'[m].closed
             /\ sendTransport' \in {"none", "closed"}
             /\ recvTransport' \in {"none", "closed"}
      /\ (impl \in XSession /\ xroom = "connected.leaving"
            /\ xroom' = "connected.left")
          => /\ \A m \in Range(media) : actors[m].closed
             /\ sendTransport \in {"none", "closed"}
             /\ recvTransport \in {"none", "closed"}
             /\ peers' = <<>> /\ media' = <<>> ]_vars

\* a Session that left: its Media machine was still running when LEAVE
\* closed its producer
C19_Witness ==
  /\ impl = "xstate" /\ xroom = "connected.left"
  /\ peers = <<>> /\ media = <<>>
  /\ sendTransport = "closed" /\ recvTransport = "closed"
  /\ XActive(actors[1]) /\ actors[1].closed

C21_CloseDiscards ==
  [][ op'.name = "Close" => (xroom' = "waiting" /\ rooms'[id] # "this") ]_vars

\* ---- C22
\* C22 as stated: registering with useState or useMedia invokes the callback
\* exactly once at once; while registered on the Session every transition of
\* it invokes the callback once; after unregistering no step invokes it, and
\* unregistering again changes nothing.
C22_Subscription ==
  [][ /\ op'.name = "use" => op'.calls = 1
      /\ (sub = "room" /\ sub' = "room" /\ xvars' # xvars) => op'.calls = 1
      /\ sub' = "off" => op'.calls = 0
      /\ (sub = "off" /\ op'.name = "unsubscribe")
           => UNCHANGED <<xvars, avars>> ]_vars

\* ---- C23
\* C23 as stated: whatever settings.produce and settings.consume are, the
\* Session enters connected.joined from joining only with the join request
\* answered (the roster it returned, self included, is in the context), a
\* send transport made if producing and a receive transport if consuming.
C23_JoinedAfterJoin ==
  [][ (xroom = "connected.joining" /\ xroom' = "connected.joined")
        => /\ Self \in Range(peers')
           /\ settings.produce => sendTransport' = "open"
           /\ settings.consume => recvTransport' = "open" ]_vars

\* ---- C24
\* C24 as stated: a Media machine that is sent CLOSED or TRACK.ENDED in
\* active.live.healthy, active.live.unhealthy, active.paused or switching is
\* in stopped after that event, and a track replacement that settles after
\* such an event does not replace the track.
C24_StopsFromAnyState ==
  [][ /\ (impl = "xmedia"
           /\ actors[1].s \in {"healthy", "unhealthy", "paused", "switching"}
           /\ mlast' \in {"CLOSED", "TRACK.ENDED"}
           /\ <<mlast, mprev, actors>>' # <<mlast, mprev, actors>>)
          => actors'[1].s = "stopped"
      /\ (impl = "xmedia" /\ mlast \in {"CLOSED", "TRACK.ENDED"}
           /\ mlast' = "done.invoke.switch")
          => actors'[1].track = actors[1].track ]_vars

\* ---- C25
\* C25 as stated: once a consumerClosed notification naming a consumed Media
\* of the media list has been handled, that Media's machine is in stopped
\* and the Media is no longer in the list.
C25_ConsumerClosedStops ==
  [][ (impl = "xmedia" /\ op'.name = "consumerClosed" /\ op' # op)
        => (actors'[1].s = "stopped" /\ 1 \notin Range(media')) ]_vars

\* ---- C26
\* C26 as stated: once a peerClosed notification for peer p has been handled
\* the roster holds no p, the media list holds no Media of p, and every
\* Media of p that was in the list has its consumer closed and its machine
\* in stopped.
C26_PeerClosed ==
  [][ \A p \in RemotePeers :
        (xroom' = xroom /\ p \in Range(peers) /\ p \notin Range(peers'))
          => /\ \A m \in Range(media') : actors'[m].peerId # p
             /\ \A m \in Range(media) :
                  actors[m].peerId = p
                    => (actors'[m].closed /\ actors'[m].s = "stopped") ]_vars

\* ---- C27
\* C27 as stated: a Media machine in stopped, however it got there, has its
\* producer / consumer closed, has no track left running that it was handed
\* (the bound one, or the replacement of a SWITCH that failed), and has sent
\* exactly one MEDIA.CLOSED.
C27_StoppedReleasesAll ==
  (impl = "xmedia" /\ actors[1].s = "stopped")
    => (actors[1].closed /\ actors[1].live = {} /\ closedSent = 1)

C29_ArrivalOrder ==
  [][ (impl = "xreq" /\ req.st = "consuming" /\ req'.st = "consuming"
         /\ xroom' = xroom /\ sock' = sock)
        => (peers' = peers /\ media' = media) ]_vars

\* ---- C30
\* C30 as stated: when the channel reports disconnected the Session (xstate
\* roomMachine in any connected substate, legacy Room) enters reconnecting
\* with its roster, its media list and the Media in it as they were, and
\* they stay so throughout reconnecting.
C30_StateKept ==
  [][ /\ (impl \in XSession /\ xroom \in Connected /\ sock = "open"
           /\ sock' = "down")
          => (xroom' = "reconnecting" /\ peers' = peers /\ media' = media
              /\ actors' = actors)
      /\ (xroom = "reconnecting" /\ xroom' = "reconnecting")
          => (peers' = peers /\ media' = media)
      /\ (impl \in Legacy /\ protoo = "open" /\ protoo' = "down")
          => (room_state' = "reconnecting" /\ rpeers' = rpeers
              /\ lm' = [lm EXCEPT !.fx = lm'.fx]) ]_vars

\* C30 amended: the xstate roomMachine enters reconnecting from every
\* connected substate with roster, media list and Media machines untouched,
\* and roster and media list stay as they are throughout reconnecting; the
\* legacy Room enters reconnecting too, but its 'disconnected' listener
\* calls leave(), which empties the roster and calls close() on every Media:
\* a Media that is not inactive loses its track and has its producer /
\* consumer closed, an inactive one is left as it is.
C30_XstateKeepsLegacyLeaves ==
  [][ /\ (impl \in XSession /\ xroom \in Connected /\ sock = "open"
           /\ sock' = "down")
          => (xroom' = "reconnecting" /\ peers' = peers /\ media' = media
              /\ actors' = actors)
      /\ (xroom = "reconnecting" /\ xroom' = "reconnecting")
          => (peers' = peers /\ media' = media)
      /\ (impl \in Legacy /\ protoo = "open" /\ protoo' = "down")
          => /\ room_state' = "reconnecting" /\ rpeers' = {}
             /\ IF lm.state = "inactive"
                THEN lm' = [lm EXCEPT !.fx = lm'.fx]
                ELSE /\ lm'.track = "none"
                     /\ ~CapLive(lm'.producer)
                     /\ ~CapLive(lm'.consumer) ]_vars

C30_Witness ==
  /\ impl = "xstate" /\ xroom = "reconnecting" /\ sock = "down"
  /\ Len(peers) = 2 /\ Len(media) = 1 /\ actors[media[1]].s = "stopped"

\* ---- C31
\* C31 as stated: a Media that enters active (an xstate Media machine
\* entering 'active' from outside it, a legacy Media whose producer.send or
\* consumer.receive completes) is paused exactly when its producer or
\* consumer reports paused by either side at that moment; an xstate machine
\* is in live.healthy otherwise.
C31_PausedAtEntry ==
  [][ /\ \A m \in MediaIds :
           (~XActive(actors[m]) /\ XActive(actors'[m]))
             => actors'[m].s = IF actors'[m].paused THEN "paused"
                               ELSE "healthy"
      /\ (impl = "lmedia" /\ lm.pc \in {"send", "receive"}
            /\ lm'.pc = "none" /\ Cap(lm') = "open")
           => /\ lm'.state \in {"active", "paused"}
              /\ lm'.state = "paused" <=> (lm'.capL \/ lm'.capR) ]_vars

\* ---- C32
\* C32 as stated: whenever the commandHandler rejects a command (its
\* signaling request failed, or the Media it names is not in the media
\* list), COMMAND_FAILED reaches the Session, the Session's state label,
\* roster and media list stay as they are and no Media machine takes an
\* event.
C32_FailureSurfaced ==
  [][ (impl \in XRuns /\ op'.name \in {"reject", "COMMAND_FAILED"}
         /\ <<cmds, op>>' # <<cmds, op>>
         /\ \A c \in cmds \ cmds' : c.name \in {"Pause", "Resume", "Stop"})
        => /\ op'.name = "COMMAND_FAILED"
           /\ xroom' = xroom /\ peers' = peers /\ media' = media
           /\ actors' = actors /\ mlast' = mlast ]_vars

\* ---- C33
\* C33 as stated: a call of activate() on a legacy Media that finds the room
\* not connected, the dependant set empty or the state activating, active
\* or paused changes nothing (a paused consumed Media apart, which is
\* unpaused); and whenever a Media starts a transport operation
\* (producer.send, consumer.receive) the room is connected and its dependant
\* set is non-empty, however activate, useTrack, close and track changes
\* interleave.
C33_ActivateGuard ==
  [][ /\ (impl = "lmedia" /\ "activate" \in lm'.fx
            /\ ignoreActivate(lm, roomConnected')
            /\ ~(lm.consumer # "none" /\ lm.state = "paused"))
           => lm' = [lm EXCEPT !.fx = {"activate"}]
      /\ (impl = "lmedia" /\ lm'.pc \in {"send", "receive"}
            /\ lm.pc \notin {"send", "receive"})
           => (roomConnected' /\ lm'.dependants # {}) ]_vars

\* ---- C34
\* C34 as stated: useTrack(id) with an id that is already registered and
\* stopUsingTrack(id) with an id that is not registered leave a legacy
\* Media as it is: the same dependant set, no teardown, no pause, no change
\* of state.
C34_IdempotentDependants ==
  [][ (impl = "lmedia" /\ lm'.fx \cap {"useTrack", "stopUsingTrack"} # {}
         /\ lm'.dependants = lm.dependants)
        => lm' = [lm EXCEPT !.fx = lm'.fx] ]_vars

\* ---- C35
\* C35 as stated: in every reachable state the roster of the xstate Session
\* holds no id twice (so self at most once), whatever join, newPeer,
\* peerClosed, leave and rejoin came before.
C35_RosterIsSet ==
  \A i, j \in 1..Len(peers) : i # j => peers[i] # peers[j]

\* ---- C36
\* C36 as stated: whenever a step calls a watcher's callback, at
\* registration or on a later transition of the Session, the watcher is
\* registered and the callback receives a Media of the media list that is
\* available (its machine in active.live) and matches the watcher's
\* options; it is never called with no media.
C36_ValidMediaOnly ==
  [][ wcb' # -1
        => /\ watcher'.st = "on"
           /\ wcb' \in Range(media')
           /\ XLive(actors'[wcb'])
           /\ mediaMatchesWatchOptions(actors'[wcb'], watcher') ]_vars

\* ---- C37
\* C37 as stated: a legacy Media whose producer or consumer is in use
\* (listeners attached) and whose state is active or paused is paused
\* exactly when locallyPaused or remotelyPaused is set, whatever pause and
\* resume notifications it received.
C37_PausedIffFlag ==
  (impl = "lmedia" /\ Cap(lm) = "open" /\ lm.state \in {"active", "paused"})
    => (lm.state = "paused" <=> (lm.locallyPaused \/ lm.remotelyPaused))

\* ---- C38
\* C38 as stated: while the xstate Session is in a connected substate other
\* than leaving, every Media of its media list has a machine that is not
\* stopped and a producer / consumer that is not closed.
C38_ListedMediaAlive ==
  xroom \in Connected \ {"connected.leaving"}
    => \A m \in Range(media) : actors[m].s # "stopped" /\ ~actors[m].closed

\* ---- C39
\* C39 as stated: whenever the xstate Session is in the top-level waiting
\* state or in connected.left, its roster and its media list are empty.
C39_EmptyAfterLeave ==
  xroom \in {"waiting", "connected.left"} => (peers = <<>> /\ media = <<>>)

\* ---- C40
\* C40 as stated: a consumer made for a newConsumer request is owned by a
\* Media of the media list or closed.  When recvTransport.consume resolves
\* and the request is accepted, a Media for the consumer is in the list,
\* whatever the Session did while consume was awaited; and a consumer that
\* is not closed belongs to a listed Media.
C40_ConsumerTracked ==
  [][ /\ (impl = "xreq" /\ req.st = "consuming" /\ req'.acc = 1)
           => (Len(media') = Len(media) + 1
               /\ actors'[media'[Len(media')]].dir = "cons")
      /\ \A m \in MediaIds :
           (actors'[m].dir = "cons" /\ ~actors'[m].closed)
             => m \in Range(media') ]_vars
====
